---- MODULE Spec2Model ----
(***************************************************************************)
(* DORA_XGB feasibility_classifier: construction, predict_proba and        *)
(* predict_label (src/DORA_XGB/DORA_XGB.py), together with the reaction    *)
(* parser, species classifier and cofactor positioning encoder of the      *)
(* featurizations package that predict_proba drives.                       *)
(*                                                                         *)
(* Strings are sequences of one-character strings.  A probability is an    *)
(* integer in 0..ScoreScale (the score in units of 1/ScoreScale).  A       *)
(* molecular fingerprint is a vector indexed by Universe (one coordinate   *)
(* per species identifier); a reaction fingerprint is a sequence of such   *)
(* blocks, each standing for slot_len consecutive entries.                 *)
(***************************************************************************)
EXTENDS Integers, Sequences, FiniteSets, TLC

VARIABLES state, self, ctor, initError, lastCall, memo, interleaved, threads

vars == <<state, self, ctor, initError, lastCall, memo, interleaved, threads>>

(***************************************************************************)
(* Bounds of the model and constants of the program.                       *)
(***************************************************************************)
\* largest number of species on one side of a generated reaction
MaxSide == 5
\* number of species on the left of the reaction of the history runs
ProbeSide == 2
\* number of threads that call one shared instance
MaxThreads == 2
\* resolution of a probability: scores and thresholds are k/ScoreScale
ScoreScale == 4
\* default of max_species (feasibility_classifier.__init__)
DefaultMaxSpecies == 4
\* default of nBits (feasibility_classifier.__init__)
DefaultNBits == 2048

(***************************************************************************)
(* Strings.                                                                *)
(***************************************************************************)
SP == " "

\* str.split(d): the pieces of s between the non-overlapping occurrences of
\* d, scanned left to right
RECURSIVE SplitFrom(_, _, _, _)
SplitFrom(s, d, i, start) ==
    IF i + Len(d) - 1 > Len(s)
    THEN << SubSeq(s, start, Len(s)) >>
    ELSE IF SubSeq(s, i, i + Len(d) - 1) = d
         THEN << SubSeq(s, start, i - 1) >> \o SplitFrom(s, d, i + Len(d), i + Len(d))
         ELSE SplitFrom(s, d, i + 1, start)

SplitOn(s, d) == SplitFrom(s, d, 1, 1)

Contains(s, d) == Len(SplitOn(s, d)) > 1

\* str.strip(): s without its leading and trailing blanks
Strip(s) ==
    LET idx == { i \in 1..Len(s) : s[i] # SP }
        lo  == CHOOSE i \in idx : \A j \in idx : i <= j
        hi  == CHOOSE i \in idx : \A j \in idx : j <= i
    IN  IF idx = {} THEN << >> ELSE SubSeq(s, lo, hi)

\* d.join(parts)
RECURSIVE Join(_, _)
Join(parts, d) ==
    IF Len(parts) = 0 THEN << >>
    ELSE IF Len(parts) = 1 THEN parts[1]
    ELSE parts[1] \o d \o Join(Tail(parts), d)

\* the delimiters of the two grammars
SideDelimA == << " ", "=", " " >>
SpeciesDelimA == << " ", "+", " " >>
SideDelimB == << ">", ">" >>
SpeciesDelimB == << "." >>

\* f"{a} + {b} = {c} + {d}"
FormatA(rxn) == Join(rxn[1], SpeciesDelimA) \o SideDelimA \o Join(rxn[2], SpeciesDelimA)

\* f"{a}.{b}>>{c}.{d}"
FormatB(rxn) == Join(rxn[1], SpeciesDelimB) \o SideDelimB \o Join(rxn[2], SpeciesDelimB)

(***************************************************************************)
(* Errors.  NoError marks a normal return.                                 *)
(***************************************************************************)
NoError == "None"
MalformedReactionError == "MalformedReactionError"
TooManySpeciesError == "TooManySpeciesError"
\* pd.read_csv(), open() and np.loadtxt() on a path that names no file
FileNotFoundError == "FileNotFoundError"
\* the FileNotFoundError of open() / np.loadtxt() on the model and threshold
\* paths
ModelArtifactNotFoundError == FileNotFoundError
\* ['SMILES'] on a cofactors file that has no such column
KeyError == "KeyError"
InvalidConfigurationError == "InvalidConfigurationError"
\* self.DORA_XGB_model read on an instance that never assigned it
AttributeError == "AttributeError"

(***************************************************************************)
(* Species identifiers of the model.                                       *)
(***************************************************************************)
CO == << "C", "O" >>
OC == << "O", "C" >>
N1 == << "N" >>
NN == << "N", "N" >>
CCeqO == << "C", "C", "=", "O" >>
CdotC == << "C", ".", "C" >>
C1 == << "C" >>
\* identifiers that are a bare '=' and a bare '+', one that ends in a blank
\* and one that ends in '>'
Eq == << "=" >>
Plus == << "+" >>
NBlank == << "N", " " >>
CGt == << "C", ">" >>
\* what the grammars cut out of the spellings of these
COPlus == << "C", "O", " ", "+" >>
EqN == << "=", " ", "N" >>
GtN == << ">", "N" >>

\* every identifier a parse of a model input can yield
Universe == { CO, OC, N1, NN, CCeqO, CdotC, C1, Eq, Plus, CGt, COPlus, EqN, GtN }
UniverseSeq == << CO, OC, N1, NN, CCeqO, CdotC, C1, Eq, Plus, CGt, COPlus, EqN, GtN >>

\* the species the generated reactions cycle through
SpeciesSeq == << CO, N1, OC, CCeqO, NN >>

\* the contents a cofactor file can have (its SMILES column, as a set)
CofactorFiles == { { N1, NN }, { N1 } }

\* what a cofactors_filepath can name: no file, a file without a SMILES
\* column, or a file pd.read_csv reads and that has the column
CofactorsFilepaths == { "absent", "no_SMILES_column", "readable" }

(***************************************************************************)
(* The reaction strings given to the prediction calls.                     *)
(***************************************************************************)
\* n species, cycling through SpeciesSeq from position off + 1
Side(n, off) == [ i \in 1..n |-> SpeciesSeq[((i + off - 1) % Len(SpeciesSeq)) + 1] ]

\* a species whose identifier holds Grammar B's species delimiter
DotReaction == << << CdotC >>, << N1 >> >>

SizePairs == { p \in (1..MaxSide) \X (1..MaxSide) : p[1] = 1 \/ p[2] = 1 \/ p[1] = p[2] }

\* species whose identifiers hold or are the characters the grammars use
EqReaction == << << CO, Eq >>, << N1 >> >>
PlusReaction == << << CO, Plus, OC >>, << N1 >> >>
BlankReaction == << << NBlank >>, << CO >> >>
GtReaction == << << CGt >>, << N1 >> >>

OddReactions == { DotReaction, EqReaction, PlusReaction, BlankReaction, GtReaction }

Reactions == { << Side(p[1], 0), Side(p[2], 2) >> : p \in SizePairs } \cup OddReactions

NoDelimiter == CO \o SpeciesDelimA \o OC

MalformedInputs ==
    { NoDelimiter,
      << >>,
      CO \o SideDelimA,
      SideDelimA \o CO,
      CO \o SideDelimA \o OC \o SideDelimA \o N1,
      CO \o SideDelimB \o OC \o SideDelimB \o N1,
      SideDelimB \o CO,
      CO \o SideDelimB,
      SpeciesDelimB \o SideDelimB \o CO }

Inputs == { FormatA(r) : r \in Reactions } \cup { FormatB(r) : r \in Reactions }
              \cup MalformedInputs

ProbeReactions == { << Side(ProbeSide, 0), Side(1, 2) >>, DotReaction }

ProbeInputs == { FormatA(r) : r \in ProbeReactions } \cup { FormatB(r) : r \in ProbeReactions }
                   \cup { NoDelimiter }

\* the strings of the calls that run concurrently: one of each grammar and
\* one that does not parse
ThreadInputs ==
    { FormatA(<< Side(ProbeSide, 0), Side(1, 2) >>), FormatB(DotReaction), NoDelimiter }

(***************************************************************************)
(* Reaction Parser.                                                        *)
(***************************************************************************)
\* the species of one side: the stripped, non-empty tokens between delimiters
SpeciesOf(side, d) ==
    LET toks == SplitOn(side, d)
        stripped == [ i \in 1..Len(toks) |-> Strip(toks[i]) ]
    IN  SelectSeq(stripped, LAMBDA t : t # << >>)

ParseFailure == [ ok |-> FALSE, left |-> << >>, right |-> << >> ]

\* the mutant of the parser: every string is read by Grammar A
parse_grammar_a_only(rxn_str) ==
    LET sides == SplitOn(rxn_str, SideDelimA)
    IN  IF Len(sides) # 2 THEN ParseFailure
        ELSE IF Strip(sides[1]) = << >> \/ Strip(sides[2]) = << >> THEN ParseFailure
        ELSE LET l == SpeciesOf(sides[1], SpeciesDelimA)
                 r == SpeciesOf(sides[2], SpeciesDelimA)
             IN  IF l = << >> \/ r = << >> THEN ParseFailure
                 ELSE [ ok |-> TRUE, left |-> l, right |-> r ]

parse(rxn_str) ==
    LET grammarB == Contains(rxn_str, SideDelimB)
        sideDelim == IF grammarB THEN SideDelimB ELSE SideDelimA
        spDelim == IF grammarB THEN SpeciesDelimB ELSE SpeciesDelimA
        sides == SplitOn(rxn_str, sideDelim)
    IN  IF Len(sides) # 2 THEN ParseFailure
        ELSE IF Strip(sides[1]) = << >> \/ Strip(sides[2]) = << >> THEN ParseFailure
        ELSE LET l == SpeciesOf(sides[1], spDelim)
                 r == SpeciesOf(sides[2], spDelim)
             IN  IF l = << >> \/ r = << >> THEN ParseFailure
                 ELSE [ ok |-> TRUE, left |-> l, right |-> r ]

\* featurizations.reaction(rxn_str): the reaction object of each string
reaction == [ rxn_str \in Inputs \cup ProbeInputs |-> parse(rxn_str) ]

(***************************************************************************)
(* Molecular weight and molecular fingerprint of a species (both computed  *)
(* by the external chemistry toolkit).                                     *)
(***************************************************************************)
AtomWt(c) == IF c = "C" THEN 12 ELSE IF c = "O" THEN 16 ELSE IF c = "N" THEN 14 ELSE 0

RECURSIVE MolWt(_)
MolWt(s) == IF s = << >> THEN 0 ELSE AtomWt(Head(s)) + MolWt(Tail(s))

ZeroFP == [ u \in Universe |-> 0 ]

fingerprint(s, fp_type, nBits) == [ u \in Universe |-> IF u = s THEN 1 ELSE 0 ]

AddFP(a, b) == [ u \in Universe |-> a[u] + b[u] ]
SubFP(a, b) == [ u \in Universe |-> a[u] - b[u] ]

RECURSIVE SumFP(_, _, _)
SumFP(species, fp_type, nBits) ==
    IF species = << >> THEN ZeroFP
    ELSE AddFP(fingerprint(Head(species), fp_type, nBits), SumFP(Tail(species), fp_type, nBits))

(***************************************************************************)
(* Species Classifier.                                                     *)
(***************************************************************************)
is_cofactor(identifier, cofactor_reference_set) == identifier \in cofactor_reference_set

(***************************************************************************)
(* Cofactor Positioning Encoder.                                           *)
(***************************************************************************)
Policies == { "by_ascending_MW", "by_descending_MW", "add_concat", "add_subtract" }
PositionalPolicies == { "by_ascending_MW", "by_descending_MW" }

\* x placed after every element that does not have to follow it: equal
\* weights keep their order of arrival
RECURSIVE InsertByMW(_, _, _)
InsertByMW(sorted, x, descending) ==
    IF sorted = << >> THEN << x >>
    ELSE IF (IF descending THEN MolWt(Head(sorted)) < MolWt(x)
                           ELSE MolWt(Head(sorted)) > MolWt(x))
         THEN << x >> \o sorted
         ELSE << Head(sorted) >> \o InsertByMW(Tail(sorted), x, descending)

\* the mutant of the ordering: the species are taken from the right, so that
\* equal weights come out in the reverse of their order of arrival
RECURSIVE SortByMW_unstable(_, _)
SortByMW_unstable(species, descending) ==
    IF species = << >> THEN << >>
    ELSE InsertByMW(SortByMW_unstable(Tail(species), descending), Head(species), descending)

RECURSIVE SortByMW(_, _)
SortByMW(species, descending) ==
    IF species = << >> THEN << >>
    ELSE InsertByMW(SortByMW(SubSeq(species, 1, Len(species) - 1), descending),
                    species[Len(species)], descending)

\* the fingerprint of each species, in order
RECURSIVE Fingerprints(_, _, _)
Fingerprints(species, fp_type, nBits) ==
    IF species = << >> THEN << >>
    ELSE << fingerprint(Head(species), fp_type, nBits) >>
             \o Fingerprints(Tail(species), fp_type, nBits)

Substrates(side, cofs) == SelectSeq(side, LAMBDA s : ~is_cofactor(s, cofs))
Cofactors(side, cofs) == SelectSeq(side, LAMBDA s : is_cofactor(s, cofs))

\* the mutant of the slot layout: no padding, one slot per species present
SideSlots_unpadded(side, descending, max_species, fp_type, nBits, cofs) ==
    Fingerprints(SortByMW(Substrates(side, cofs), descending)
                   \o SortByMW(Cofactors(side, cofs), descending), fp_type, nBits)

\* one side under a positional policy: substrates, then cofactors, each
\* ordered by weight, then zero vectors up to max_species slots
SideSlots(side, descending, max_species, fp_type, nBits, cofs) ==
    Fingerprints(SortByMW(Substrates(side, cofs), descending)
                   \o SortByMW(Cofactors(side, cofs), descending), fp_type, nBits)
        \o [ i \in 1..(max_species - Len(side)) |-> ZeroFP ]

Classes(side, cofs) == [ i \in 1..Len(side) |-> is_cofactor(side[i], cofs) ]

\* what a call computed before it raised err: the sides, if the parse gave any
Raised(err, left, right) ==
    [ raised |-> err, value |-> -1, parsed_ok |-> err # MalformedReactionError,
      left |-> left, right |-> right, encoded |-> FALSE, rxn_fp |-> << >>,
      slot_len |-> 0, classes_left |-> << >>, classes_right |-> << >> ]

encode(left, right, policy, max_species, fp_type, nBits, cofactor_reference_set) ==
    LET cofs == cofactor_reference_set
        done(slots) == [ raised |-> NoError, value |-> -1, parsed_ok |-> TRUE,
                         left |-> left, right |-> right, encoded |-> TRUE,
                         rxn_fp |-> slots, slot_len |-> nBits,
                         classes_left |-> Classes(left, cofs),
                         classes_right |-> Classes(right, cofs) ]
        sum(side) == SumFP(side, fp_type, nBits)
    IN  IF policy \in PositionalPolicies
        THEN IF Len(left) > max_species \/ Len(right) > max_species
             THEN Raised(TooManySpeciesError, left, right)
             ELSE done(SideSlots(left, policy = "by_descending_MW", max_species, fp_type, nBits, cofs)
                       \o SideSlots(right, policy = "by_descending_MW", max_species, fp_type, nBits, cofs))
        ELSE IF policy = "add_concat"
        THEN done(<< sum(Substrates(left, cofs)), sum(Substrates(right, cofs)),
                     sum(Cofactors(left, cofs)), sum(Cofactors(right, cofs)) >>)
        ELSE done(<< SubFP(sum(Substrates(left, cofs)), sum(Substrates(right, cofs))),
                     SubFP(sum(Cofactors(left, cofs)), sum(Cofactors(right, cofs))) >>)

\* reaction(rxn_str).rxn_2_fp_w_positioning(fp_type, cofactor_positioning,
\* all_cofactors_wo_stereo): max_species and nBits are not among the
\* arguments and take their defaults
rxn_2_fp_w_positioning(rxn_str, fp_type, cofactor_positioning, all_cofactors_wo_stereo) ==
    LET p == reaction[rxn_str]
    IN  IF ~p.ok
        THEN Raised(MalformedReactionError, << >>, << >>)
        ELSE encode(p.left, p.right, cofactor_positioning, DefaultMaxSpecies, fp_type,
                    DefaultNBits, all_cofactors_wo_stereo)

\* number of entries of a reaction fingerprint
VecLen(fp) == Len(fp.rxn_fp) * fp.slot_len

(***************************************************************************)
(* The loaded classifier: an opaque scorer, a fixed function of the        *)
(* artifact and of the vector it is given.                                 *)
(***************************************************************************)
\* the weights of the coordinates of a block
CoordWt == [ k \in 1..Len(UniverseSeq) |-> MolWt(UniverseSeq[k]) ]

RECURSIVE BlockWeight(_, _)
BlockWeight(v, k) ==
    IF k = 0 THEN 0
    ELSE v[UniverseSeq[k]] * CoordWt[k] + BlockWeight(v, k - 1)

RECURSIVE VectorWeight(_, _)
VectorWeight(slots, i) ==
    IF i = 0 THEN 0
    ELSE (IF slots[i] = ZeroFP THEN 0 ELSE i * BlockWeight(slots[i], Len(UniverseSeq)))
         + VectorWeight(slots, i - 1)

\* self.DORA_XGB_model.predict_proba(rxn_fp)[:,1][0]
ModelScore(model, slots) ==
    (VectorWeight(slots, Len(slots)) + (IF model.family = "main" THEN 0 ELSE 1))
        % (ScoreScale + 1)

(***************************************************************************)
(* feasibility_classifier.                                                 *)
(***************************************************************************)
ModelTypes == { "main", "spare", "other" }
RecognizedModelTypes == { "main", "spare" }
MaxSpeciesChoices == { DefaultMaxSpecies - 1, DefaultMaxSpecies }
NBitsChoices == { DefaultNBits \div 2, DefaultNBits }
FpTypes == { "ecfp4" }
\* the numbers a threshold file can hold
Thresholds == { 1, ScoreScale - 1 }

NoModel == [ family |-> "", fp_type |-> "", nBits |-> 0, max_species |-> 0,
             cofactor_positioning |-> "" ]

\* the object before __init__ has assigned anything
NoInstance ==
    [ cofactor_positioning |-> "", max_species |-> 0, fp_type |-> "", nBits |-> 0,
      model_type |-> "", cofactors_filepath |-> "", all_cofactors_wo_stereo |-> {},
      attrs |-> {}, DORA_XGB_model |-> NoModel, DORA_XGB_threshold |-> 0 ]

\* the artifact a model path names: the main family's path does not carry
\* nBits, the spare family's does
model_filepath(obj) ==
    [ family |-> obj.model_type, fp_type |-> obj.fp_type,
      nBits |-> IF obj.model_type = "main" THEN 0 ELSE obj.nBits,
      max_species |-> obj.max_species,
      cofactor_positioning |-> obj.cofactor_positioning ]

\* pickle.load(open(model_filepath, 'rb')); np.loadtxt(threshold_filepath).item()
\* the first missing file raises and the statements after it do not run
load_artifacts(obj, fs) ==
    IF ~fs.model_file
    THEN [ raised |-> ModelArtifactNotFoundError, self |-> obj ]
    ELSE LET withModel == [ obj EXCEPT !.DORA_XGB_model = model_filepath(obj),
                                       !.attrs = @ \cup { "DORA_XGB_model" } ]
         IN  IF ~fs.threshold_file
             THEN [ raised |-> ModelArtifactNotFoundError, self |-> withModel ]
             ELSE [ raised |-> NoError,
                    self |-> [ withModel EXCEPT !.DORA_XGB_threshold = fs.threshold,
                                                !.attrs = @ \cup { "DORA_XGB_threshold" } ] ]

\* self.all_cofactors_wo_stereo = set(pd.read_csv(self.cofactors_filepath,
\* delimiter = ',')['SMILES']): raises when the path names no file or the
\* file has no SMILES column, and then assigns nothing
read_cofactors(obj, fs) ==
    IF obj.cofactors_filepath = "absent"
    THEN [ raised |-> FileNotFoundError, self |-> obj ]
    ELSE IF obj.cofactors_filepath = "no_SMILES_column"
    THEN [ raised |-> KeyError, self |-> obj ]
    ELSE [ raised |-> NoError,
           self |-> [ obj EXCEPT !.all_cofactors_wo_stereo = fs.cofactors ] ]

\* __init__: what it raises and the object it leaves
feasibility_classifier(args, fs) ==
    LET obj == [ NoInstance EXCEPT
                    !.cofactor_positioning = args.cofactor_positioning,
                    !.max_species = args.max_species,
                    !.fp_type = args.fp_type,
                    !.nBits = args.nBits,
                    !.model_type = args.model_type,
                    !.cofactors_filepath = args.cofactors_filepath ]
        read == read_cofactors(obj, fs)
        afterMain == IF read.self.model_type = "main" THEN load_artifacts(read.self, fs)
                     ELSE read
    IN  IF read.raised # NoError THEN read
        ELSE IF afterMain.raised # NoError THEN afterMain
        ELSE IF afterMain.self.model_type = "spare" THEN load_artifacts(afterMain.self, fs)
        ELSE afterMain

\* the mutant of predict_proba: the encoder is given no cofactor set
predict_proba_no_cofactors(obj, rxn_str) ==
    LET fp == rxn_2_fp_w_positioning(rxn_str, obj.fp_type, obj.cofactor_positioning, {})
    IN  IF fp.raised # NoError THEN fp
        ELSE IF "DORA_XGB_model" \notin obj.attrs
        THEN [ fp EXCEPT !.raised = AttributeError ]
        ELSE [ fp EXCEPT !.value = ModelScore(obj.DORA_XGB_model, fp.rxn_fp) ]

\* predict_proba: the score (value), or the error raised, with the sides
\* the reaction object was parsed into and the fingerprint that was scored
predict_proba(obj, rxn_str) ==
    LET fp == rxn_2_fp_w_positioning(rxn_str, obj.fp_type, obj.cofactor_positioning,
                                     obj.all_cofactors_wo_stereo)
    IN  IF fp.raised # NoError THEN fp
        ELSE IF "DORA_XGB_model" \notin obj.attrs
        THEN [ fp EXCEPT !.raised = AttributeError ]
        ELSE [ fp EXCEPT !.value = ModelScore(obj.DORA_XGB_model, fp.rxn_fp) ]

\* the mutant of predict_label: a score equal to the threshold is infeasible
predict_label_strict(obj, rxn_str) ==
    LET r == predict_proba(obj, rxn_str)
    IN  IF r.raised # NoError THEN r
        ELSE [ r EXCEPT !.value = IF @ > obj.DORA_XGB_threshold THEN 1 ELSE 0 ]

\* the mutant of predict_label: an error of predict_proba is answered by 0
predict_label_swallows(obj, rxn_str) ==
    LET r == predict_proba(obj, rxn_str)
    IN  IF r.raised # NoError THEN [ r EXCEPT !.raised = NoError, !.value = 0 ]
        ELSE [ r EXCEPT !.value = IF @ >= obj.DORA_XGB_threshold THEN 1 ELSE 0 ]

\* predict_label: the label, or the error predict_proba raised
predict_label(obj, rxn_str) ==
    LET r == predict_proba(obj, rxn_str)
    IN  IF r.raised # NoError THEN r
        ELSE [ r EXCEPT !.value = IF @ >= obj.DORA_XGB_threshold THEN 1 ELSE 0 ]

\* the mutant of the calls' effect: the cofactors met on the left side of a
\* call are taken out of the shared set
self_after_call_consumes(obj, result) ==
    [ obj EXCEPT !.all_cofactors_wo_stereo =
                    @ \ { result.left[i] : i \in 1..Len(result.left) } ]

\* the mutant of the calls' effect: a call that raises drops the threshold
self_after_call_resets(obj, result) ==
    IF result.raised # NoError
    THEN [ obj EXCEPT !.DORA_XGB_threshold = 0 ]
    ELSE obj

\* the mutant of the calls' effect: the species of a call are remembered as
\* cofactors
self_after_call_learns(obj, result) ==
    [ obj EXCEPT !.all_cofactors_wo_stereo =
                    @ \cup { result.left[i] : i \in 1..Len(result.left) } ]

\* the object after predict_proba or predict_label: neither assigns an
\* attribute of self
self_after_call(obj, result) == obj

(***************************************************************************)
(* State machine.                                                          *)
(***************************************************************************)
NoCall ==
    [ op |-> "none", rxn_str |-> << >>, parsed_ok |-> FALSE, left |-> << >>,
      right |-> << >>, encoded |-> FALSE, rxn_fp |-> << >>, slot_len |-> 0,
      classes_left |-> << >>, classes_right |-> << >>, raised |-> NoError, value |-> -1 ]

\* the threads that share the instance, and a thread that is in no call
Threads == 1..MaxThreads

NoResult == [ Raised(NoError, << >>, << >>) EXCEPT !.parsed_ok = FALSE ]

IdleThread ==
    [ pc |-> "idle", op |-> "none", rxn_str |-> << >>, overlapped |-> FALSE,
      result |-> NoResult ]

NoCtor == [ called |-> FALSE, model_type |-> "", cofactors_file |-> "", model_file |-> "",
            threshold_file |-> "" ]

Init ==
    /\ state = "Uninitialized"
    /\ self = NoInstance
    /\ ctor = NoCtor
    /\ initError = NoError
    /\ lastCall = NoCall
    /\ memo = NoCall
    /\ interleaved = FALSE
    /\ threads = [ t \in Threads |-> IdleThread ]

\* whether a file of the configuration-resolved pair is there; an
\* unrecognized model_type resolves no path
Resolved(model_type, exists) ==
    IF model_type \notin RecognizedModelTypes THEN "not_resolved"
    ELSE IF exists THEN "present" ELSE "absent"

\* feasibility_classifier(...): the caller holds an instance only if
\* __init__ returns
Construct ==
    /\ state = "Uninitialized"
    /\ \E pol \in Policies, ms \in MaxSpeciesChoices, fp \in FpTypes, nb \in NBitsChoices,
          mt \in ModelTypes, cfp \in CofactorsFilepaths, cof \in CofactorFiles,
          mf \in BOOLEAN, tf \in BOOLEAN, thr \in Thresholds :
         LET args == [ cofactor_positioning |-> pol, max_species |-> ms, fp_type |-> fp,
                       nBits |-> nb, model_type |-> mt, cofactors_filepath |-> cfp ]
             fs == [ cofactors |-> cof, model_file |-> mf, threshold_file |-> tf,
                     threshold |-> thr ]
             res == feasibility_classifier(args, fs)
         IN  /\ ctor' = [ called |-> TRUE, model_type |-> mt, cofactors_file |-> cfp,
                          model_file |-> Resolved(mt, mf),
                          threshold_file |-> Resolved(mt, tf) ]
             /\ IF res.raised = NoError
                THEN /\ state' = "Ready"
                     /\ self' = res.self
                     /\ initError' = NoError
                ELSE /\ state' = "Failed"
                     /\ self' = NoInstance
                     /\ initError' = res.raised
    /\ UNCHANGED << lastCall, memo, interleaved, threads >>

Call(op, rxn_str) ==
    [ op |-> op, rxn_str |-> rxn_str ]
        @@ (IF op = "predict_proba" THEN predict_proba(self, rxn_str)
            ELSE predict_label(self, rxn_str))

\* model.predict_proba(rxn_str)
PredictProba ==
    /\ state = "Ready"
    /\ \E s \in Inputs :
         \E r \in { Call("predict_proba", s) } :
            /\ lastCall' = r
            /\ self' = self_after_call(self, r)
    /\ UNCHANGED << state, ctor, initError, memo, interleaved, threads >>

\* model.predict_label(rxn_str)
PredictLabel ==
    /\ state = "Ready"
    /\ \E s \in Inputs :
         \E r \in { Call("predict_label", s) } :
            /\ lastCall' = r
            /\ self' = self_after_call(self, r)
    /\ UNCHANGED << state, ctor, initError, memo, interleaved, threads >>

Next == Construct \/ PredictProba \/ PredictLabel

Spec == Init /\ [][Next]_vars

\* the same calls with their history kept: the first call of the instance,
\* and whether a call with another string has followed it
PredictProbaH ==
    /\ state = "Ready"
    /\ \E s \in ProbeInputs :
         \E r \in { Call("predict_proba", s) } :
            /\ lastCall' = r
            /\ self' = self_after_call(self, r)
            /\ memo' = IF memo.op = "none" THEN r ELSE memo
            /\ interleaved' = (interleaved \/ (memo.op # "none" /\ s # memo.rxn_str))
    /\ UNCHANGED << state, ctor, initError, threads >>

PredictLabelH ==
    /\ state = "Ready"
    /\ \E s \in ProbeInputs :
         \E r \in { Call("predict_label", s) } :
            /\ lastCall' = r
            /\ self' = self_after_call(self, r)
            /\ memo' = IF memo.op = "none" THEN r ELSE memo
            /\ interleaved' = (interleaved \/ (memo.op # "none" /\ s # memo.rxn_str))
    /\ UNCHANGED << state, ctor, initError, threads >>

NextH == Construct \/ PredictProbaH \/ PredictLabelH

SpecH == Init /\ [][NextH]_vars

(***************************************************************************)
(* Several threads calling one shared instance.  A call is the sequence of *)
(* its statements; between two statements of one thread the other threads  *)
(* may run.  pc names the line of DORA_XGB.py the thread executes next.    *)
(***************************************************************************)
InFlight(th) == th.pc \notin { "idle", "done" }

\* the threads after thread t stepped to th: the calls the step fell into
\* have been overlapped
After(t, th) ==
    [ u \in Threads |->
        IF u = t THEN th
        ELSE IF InFlight(threads[u]) THEN [ threads[u] EXCEPT !.overlapped = TRUE ]
        ELSE threads[u] ]

\* thread t returns or raises: its call is over
Finish(t, result) ==
    /\ threads' = After(t, [ threads[t] EXCEPT !.pc = "done", !.result = result ])
    /\ self' = self_after_call(self, result)

\* thread t goes on to the statement at line pc
Goto(t, pc, result) ==
    /\ threads' = After(t, [ threads[t] EXCEPT !.pc = pc, !.result = result ])
    /\ self' = self

\* a thread enters predict_proba or predict_label
Begin(t) ==
    /\ state = "Ready"
    /\ ~InFlight(threads[t])
    /\ \E op \in { "predict_proba", "predict_label" }, s \in ThreadInputs :
          threads' = After(t, [ IdleThread EXCEPT !.pc = "L127", !.op = op, !.rxn_str = s ])
    /\ UNCHANGED << state, self, ctor, initError, lastCall, memo, interleaved >>

\* rxn_object = featurizations.reaction(rxn_str)
ReactionStep(t) ==
    /\ threads[t].pc = "L127"
    /\ IF reaction[threads[t].rxn_str].ok
       THEN Goto(t, "L130", threads[t].result)
       ELSE Finish(t, Raised(MalformedReactionError, << >>, << >>))
    /\ UNCHANGED << state, ctor, initError, lastCall, memo, interleaved >>

\* rxn_fp = rxn_object.rxn_2_fp_w_positioning(...); rxn_fp.reshape(1, -1)
FingerprintStep(t) ==
    /\ threads[t].pc = "L130"
    /\ \E fp \in { rxn_2_fp_w_positioning(threads[t].rxn_str, self.fp_type,
                                          self.cofactor_positioning,
                                          self.all_cofactors_wo_stereo) } :
          IF fp.raised # NoError THEN Finish(t, fp) ELSE Goto(t, "L137", fp)
    /\ UNCHANGED << state, ctor, initError, lastCall, memo, interleaved >>

\* rxn_feasibility_score = self.DORA_XGB_model.predict_proba(rxn_fp)[:,1][0]
\* and the return of predict_proba, into predict_label if that is the caller
ScoreStep(t) ==
    /\ threads[t].pc = "L137"
    /\ IF "DORA_XGB_model" \notin self.attrs
       THEN Finish(t, [ threads[t].result EXCEPT !.raised = AttributeError ])
       ELSE \E scored \in { [ threads[t].result EXCEPT
                                !.value = ModelScore(self.DORA_XGB_model,
                                                    threads[t].result.rxn_fp) ] } :
               IF threads[t].op = "predict_proba"
               THEN Finish(t, scored)
               ELSE Goto(t, "L144", scored)
    /\ UNCHANGED << state, ctor, initError, lastCall, memo, interleaved >>

\* if rxn_feasibility_score >= self.DORA_XGB_threshold: return 1, else: return 0
LabelStep(t) ==
    /\ threads[t].pc = "L144"
    /\ Finish(t, [ threads[t].result EXCEPT
                      !.value = IF @ >= self.DORA_XGB_threshold THEN 1 ELSE 0 ])
    /\ UNCHANGED << state, ctor, initError, lastCall, memo, interleaved >>

NextC ==
    \/ Construct
    \/ \E t \in Threads : Begin(t)
    \/ \E t \in Threads : ReactionStep(t)
    \/ \E t \in Threads : FingerprintStep(t)
    \/ \E t \in Threads : ScoreStep(t)
    \/ \E t \in Threads : LabelStep(t)

SpecC == Init /\ [][NextC]_vars

(***************************************************************************)
(* Properties.                                                             *)
(***************************************************************************)
Called == state = "Ready" /\ lastCall.op # "none"
Positional == self.cofactor_positioning \in PositionalPolicies
\* a call on an instance whose construction loaded a model
CalledLoaded == Called /\ "DORA_XGB_model" \in self.attrs

\* C1: whenever predict_proba succeeds on a string, predict_label on that
\* string returns 1 if the score is at least the loaded threshold and 0
\* otherwise, and nothing but 0 or 1.
C1_LabelIffScoreAtLeastThreshold ==
    (Called /\ lastCall.op = "predict_label") =>
        LET p == predict_proba(self, lastCall.rxn_str)
        IN  p.raised = NoError =>
              /\ lastCall.raised = NoError
              /\ lastCall.value \in { 0, 1 }
              /\ lastCall.value = 1 <=> p.value >= self.DORA_XGB_threshold

\* a label computed from a score equal to the threshold
C1_Witness ==
    /\ Called /\ lastCall.op = "predict_label" /\ lastCall.raised = NoError
    /\ predict_proba(self, lastCall.rxn_str).value = self.DORA_XGB_threshold
    /\ lastCall.value = 1

\* C2: a construction with a model_type other than 'main' and 'spare' (and
\* a cofactors file that was read) fails with InvalidConfigurationError, so
\* that no such instance is ever Ready.
C2_UnrecognizedModelTypeRejected ==
    (ctor.called /\ ctor.cofactors_file = "readable"
        /\ ctor.model_type \notin RecognizedModelTypes) =>
        (state = "Failed" /\ initError = InvalidConfigurationError)

\* C3: a construction (whose cofactors file was read) fails with
\* ModelArtifactNotFoundError and leaves no instance when the resolved model
\* file or threshold file is absent, and an instance is Ready only with both
\* its model and its threshold loaded.
C3_NoPartialConstruction ==
    (ctor.called /\ ctor.cofactors_file = "readable") =>
        /\ (ctor.model_file = "absent" \/ ctor.threshold_file = "absent") =>
              (state = "Failed" /\ initError = ModelArtifactNotFoundError
                 /\ self = NoInstance)
        /\ state = "Ready" => { "DORA_XGB_model", "DORA_XGB_threshold" } \subseteq self.attrs

\* C4: a predict_proba call returns what the first predict_proba call of
\* the instance with the same string returned (the same score, or the same
\* error), whatever calls were made in between.
C4_Deterministic ==
    (Called /\ memo.op = "predict_proba" /\ lastCall.op = "predict_proba"
        /\ lastCall.rxn_str = memo.rxn_str) =>
        lastCall = memo

\* the first string scored again after a call with another string
C4_Witness ==
    /\ Called /\ interleaved
    /\ memo.op = "predict_proba" /\ lastCall.op = "predict_proba"
    /\ lastCall.rxn_str = memo.rxn_str /\ lastCall.raised = NoError

\* C5: no step taken by a Ready instance (a predict_proba or predict_label
\* call, returning or raising) changes the instance: its configuration,
\* cofactor set, model and threshold keep their values and it stays Ready.
C5_CallsLeaveInstanceUnchanged ==
    [][state = "Ready" => (state' = "Ready" /\ self' = self /\ ctor' = ctor
                             /\ initError' = initError)]_vars

\* a call that raised, followed by a call that returned
C5_Witness ==
    /\ Called /\ interleaved
    /\ memo.raised # NoError /\ lastCall.raised = NoError

\* the smallest reaction: one species on each side
RefRxn == FormatA(<< Side(1, 0), Side(1, 2) >>)

\* C6: every reaction an instance encodes has the fingerprint length of the
\* one-species reaction; under the positional policies each side's slots
\* hold its species first and zero vectors in every slot after them.
C6_FixedLength ==
    (Called /\ lastCall.encoded) =>
        /\ VecLen(lastCall) = VecLen(predict_proba(self, RefRxn))
        /\ Positional =>
              LET cap == Len(lastCall.rxn_fp) \div 2
              IN  /\ Len(lastCall.rxn_fp) = 2 * cap
                  /\ \A i \in 1..cap :
                        /\ lastCall.rxn_fp[i] = ZeroFP <=> i > Len(lastCall.left)
                        /\ lastCall.rxn_fp[cap + i] = ZeroFP <=> i > Len(lastCall.right)

\* a full side and a one-species side in one positional fingerprint
C6_Witness ==
    /\ Called /\ lastCall.encoded /\ Positional
    /\ Len(lastCall.left) = DefaultMaxSpecies /\ Len(lastCall.right) = 1

\* C7: on an instance with its model loaded, a parsed reaction with more
\* than the instance's max_species species on a side raises
\* TooManySpeciesError under the positional policies, and every parsed
\* reaction is encoded and scored under add_concat and add_subtract.
C7_OverflowRaisesUnderPositional ==
    (CalledLoaded /\ lastCall.parsed_ok) =>
        /\ (Positional /\ (Len(lastCall.left) > self.max_species
                             \/ Len(lastCall.right) > self.max_species)) =>
              lastCall.raised = TooManySpeciesError
        /\ ~Positional => (lastCall.encoded /\ lastCall.raised = NoError)

TwinsOf(r) == { FormatA(r), FormatB(r) }

\* the two spellings of reaction r give its sides and the same result
SpellingsAgree(r) ==
    lastCall.rxn_str \in TwinsOf(r) =>
        /\ lastCall.parsed_ok /\ lastCall.left = r[1] /\ lastCall.right = r[2]
        /\ \A s \in TwinsOf(r) : Call(lastCall.op, s) = [ lastCall EXCEPT !.rxn_str = s ]

\* C8 as stated: for every pair of non-empty species sequences the Grammar A
\* and the Grammar B spelling parse to that pair and are predicted alike.
C8_GrammarEquivalence ==
    CalledLoaded => \A r \in Reactions : SpellingsAgree(r)

\* an identifier the amended statement covers: not empty, without blank,
\* '.' and '>', and not a bare '='
DelimiterFree(s) ==
    /\ s # << >>
    /\ \A i \in 1..Len(s) : s[i] \notin { " ", ".", ">" }
    /\ s # << "=" >>

CleanReaction(r) ==
    /\ \A i \in 1..Len(r[1]) : DelimiterFree(r[1][i])
    /\ \A i \in 1..Len(r[2]) : DelimiterFree(r[2][i])

\* both spellings of reaction r parse to its sides
ParsesToItself(r) ==
    \A s \in TwinsOf(r) : reaction[s] = [ ok |-> TRUE, left |-> r[1], right |-> r[2] ]

\* C8 amended: for species identifiers that are not empty, hold no blank, no
\* '.' and no '>' and are not a bare '=', the Grammar A and the Grammar B
\* spelling parse to the same sides in input order and are predicted alike
\* (a bare '+' included); and each exclusion is needed: the reactions of the
\* model with an identifier that ends in a blank, holds '.', ends in '>' or is
\* a bare '=' do not parse to their sides in both spellings.
C8_GrammarEquivalenceDelimiterFree ==
    Called =>
        /\ \A r \in { q \in Reactions : CleanReaction(q) } : SpellingsAgree(r)
        /\ \A r \in Reactions : ~CleanReaction(r) => ~ParsesToItself(r)

\* the Grammar A spelling of a reaction with a bare '+' between two species,
\* parsed to its three species
C8_Witness ==
    /\ Called /\ lastCall.raised = NoError
    /\ CleanReaction(PlusReaction)
    /\ lastCall.rxn_str = FormatA(PlusReaction)
    /\ lastCall.left = PlusReaction[1] /\ lastCall.right = PlusReaction[2]

\* C9: a string that does not split into exactly two non-empty sides, or
\* one of whose sides yields no species, makes either call raise
\* MalformedReactionError and return neither score nor label.
C9_MalformedRaises ==
    (Called /\ lastCall.rxn_str \in MalformedInputs) =>
        /\ lastCall.raised = MalformedReactionError
        /\ lastCall.value = -1
        /\ ~lastCall.encoded

\* predict_label on "A + B", which has neither delimiter
C9_Witness ==
    /\ Called /\ lastCall.op = "predict_label" /\ lastCall.rxn_str = NoDelimiter
    /\ lastCall.raised = MalformedReactionError

\* C10: an encoded species is a cofactor exactly when its identifier is in
\* the set loaded at construction, and a parsed reaction never fails for
\* holding identifiers outside the set: it fails only by slot overflow or
\* for want of a model.
C10_CofactorIffMember ==
    Called =>
        /\ lastCall.encoded =>
              /\ \A i \in 1..Len(lastCall.left) :
                    lastCall.classes_left[i] <=> lastCall.left[i] \in self.all_cofactors_wo_stereo
              /\ \A i \in 1..Len(lastCall.right) :
                    lastCall.classes_right[i] <=> lastCall.right[i] \in self.all_cofactors_wo_stereo
        /\ (lastCall.parsed_ok /\ "DORA_XGB_model" \in self.attrs
              /\ (Positional => /\ Len(lastCall.left) <= DefaultMaxSpecies
                                /\ Len(lastCall.right) <= DefaultMaxSpecies)) =>
              lastCall.raised = NoError

\* a cofactor spelling missing from the loaded set, scored as a substrate
C10_Witness ==
    /\ Called /\ lastCall.raised = NoError
    /\ NN \notin self.all_cofactors_wo_stereo
    /\ \E i \in 1..Len(lastCall.left) : lastCall.left[i] = NN /\ ~lastCall.classes_left[i]
    /\ \E i \in 1..Len(lastCall.left) : lastCall.left[i] = N1 /\ lastCall.classes_left[i]

\* the slots of one side of the last call's fingerprint: the left side's
\* when which = 1, the right side's when which = 2
SideOf(which) == IF which = 1 THEN lastCall.left ELSE lastCall.right
ClassesOf(which) == IF which = 1 THEN lastCall.classes_left ELSE lastCall.classes_right
BlockOf(which) ==
    LET cap == Len(lastCall.rxn_fp) \div 2
    IN  SubSeq(lastCall.rxn_fp, (which - 1) * cap + 1, which * cap)

\* the slots of a block that hold the fingerprint of species s
SlotsOf(block, s) ==
    { k \in 1..Len(block) : block[k] = fingerprint(s, self.fp_type, self.nBits) }

\* C11: under by_ascending_MW and by_descending_MW, two different species of
\* one side that have the same class and the same molecular weight each
\* occupy a slot of that side, and the one parsed first occupies the earlier
\* slot.
C11_OrderingStability ==
    (Called /\ lastCall.encoded /\ Positional) =>
        \A which \in { 1, 2 } :
            LET side == SideOf(which)
                cls == ClassesOf(which)
                block == BlockOf(which)
            IN  \A i, j \in 1..Len(side) :
                    (i < j /\ side[i] # side[j] /\ cls[i] = cls[j]
                        /\ MolWt(side[i]) = MolWt(side[j])) =>
                        /\ SlotsOf(block, side[i]) # {}
                        /\ SlotsOf(block, side[j]) # {}
                        /\ \A a \in SlotsOf(block, side[i]), b \in SlotsOf(block, side[j]) : a < b

\* CO parsed before OC on the left and OC before CO on the right, each pair
\* of equal weight with another species between them, under either direction
C11_Witness ==
    /\ Called /\ lastCall.encoded /\ Positional
    /\ \E i, j \in 1..Len(lastCall.left) :
          i + 1 < j /\ lastCall.left[i] = CO /\ lastCall.left[j] = OC
    /\ \E i, j \in 1..Len(lastCall.right) :
          i + 1 < j /\ lastCall.right[i] = OC /\ lastCall.right[j] = CO

\* what the call of a thread returns when it runs alone on the instance
Alone(th) ==
    IF th.op = "predict_proba" THEN predict_proba(self, th.rxn_str)
    ELSE predict_label(self, th.rxn_str)

\* C12: with several threads inside predict_proba and predict_label on one
\* Ready instance, under every interleaving of their statements no step
\* changes the instance (model, threshold, cofactor set, configuration), it
\* stays Ready, and every call that has ended returned or raised exactly what
\* the same call gives when run alone.
C12_ConcurrentCallsIndependent ==
    /\ [](\A t \in Threads : threads[t].pc = "done" => threads[t].result = Alone(threads[t]))
    /\ [][state = "Ready" => (state' = "Ready" /\ self' = self /\ ctor' = ctor
                                /\ initError' = initError)]_vars

\* a label returned by a call that other threads stepped into, while another
\* thread, itself overlapped, is between its statements on another string
C12_Witness ==
    /\ state = "Ready"
    /\ \E t, u \in Threads :
          /\ t # u
          /\ threads[t].pc = "done" /\ threads[t].overlapped
          /\ threads[t].op = "predict_label" /\ threads[t].result.raised = NoError
          /\ threads[u].pc = "L137" /\ threads[u].overlapped
          /\ threads[u].rxn_str # threads[t].rxn_str

\* C13: every reaction a loaded instance encodes is encoded with the
\* instance's own configuration: each species' fingerprint has the
\* instance's nBits entries and, under the positional policies, each side
\* has the instance's max_species slots.
C13_EncodesWithOwnConfiguration ==
    (CalledLoaded /\ lastCall.encoded) =>
        /\ lastCall.slot_len = self.nBits
        /\ Positional => Len(lastCall.rxn_fp) = 2 * self.max_species

\* the species whose fingerprint a slot holds
SpeciesAt(block, k) == CHOOSE u \in Universe : block[k][u] = 1

\* weights w1, w2 of two slots in this order agree with the policy's direction
InDirection(w1, w2) ==
    IF self.cofactor_positioning = "by_descending_MW" THEN w1 >= w2 ELSE w1 <= w2

\* the slots of one side, cap slots long, hold the species of the side:
\* each species as often as the side has it, substrates before cofactors,
\* each class ordered by weight, and zero vectors in the slots after them
SideLayout(side, block, cap) ==
    LET n == Len(side)
        cof(k) == is_cofactor(SpeciesAt(block, k), self.all_cofactors_wo_stereo)
    IN  /\ Len(block) = cap
        /\ n <= cap
        /\ \A k \in 1..cap : block[k] = ZeroFP <=> k > n
        /\ \A k \in 1..n :
              block[k] = fingerprint(SpeciesAt(block, k), self.fp_type, self.nBits)
        /\ \A s \in Universe :
              Cardinality({ k \in 1..n : SpeciesAt(block, k) = s })
                 = Cardinality({ i \in 1..n : side[i] = s })
        /\ \A a, b \in 1..n :
              a < b =>
                 /\ ~(cof(a) /\ ~cof(b))
                 /\ (cof(a) = cof(b)) =>
                       InDirection(MolWt(SpeciesAt(block, a)), MolWt(SpeciesAt(block, b)))

\* the left side in the first cap slots, the right side in the cap after them
PositionalLayout(cap) ==
    /\ Len(lastCall.rxn_fp) = 2 * cap
    /\ SideLayout(lastCall.left, SubSeq(lastCall.rxn_fp, 1, cap), cap)
    /\ SideLayout(lastCall.right, SubSeq(lastCall.rxn_fp, cap + 1, 2 * cap), cap)

\* C14: under by_ascending_MW and by_descending_MW the fingerprint a loaded
\* instance scores is the left side's block of max_species slots followed by
\* the right side's; in each block the substrates precede the cofactors, each
\* class is ordered by molecular weight in the policy's direction, and the
\* slots after the species, up to max_species, are zero vectors.
C14_PositionalLayout ==
    (CalledLoaded /\ lastCall.encoded /\ Positional) => PositionalLayout(self.max_species)
====
